---- MODULE Spec2Model ----
(***************************************************************************)
(* Model of the infix_parser extension                                     *)
(* (enterprise_modules/rust_extensions/infix_parser/src/lib.rs):           *)
(* tokenize -> parse_expression -> simplify -> to_py, driven by            *)
(* parse_infix.                                                            *)
(*                                                                         *)
(* A Rust String / &str is a sequence of one-character strings.  Token     *)
(* positions are 0-based as in the source: the token at index pos is       *)
(* tokens[pos + 1] here.  A panic is an explicit result                    *)
(* [ok |-> FALSE, panic |-> message] that every caller passes on, which is *)
(* what unwinding does.                                                    *)
(*                                                                         *)
(* f64 values: a value that f64 holds exactly is the record [n, d], the    *)
(* dyadic rational n/d in lowest terms (d a power of two; all magnitudes   *)
(* of the bounded inputs are far below 2^53).  The results of division by  *)
(* zero are [special].  Every other f64 value (a rounded literal, a        *)
(* rounded quotient, negative zero, arithmetic on such values) is kept as  *)
(* the term that computes it, [lit], [fneg, of] or [fop, x, y]: f64        *)
(* arithmetic is deterministic, so equal terms are equal values.           *)
(***************************************************************************)
EXTENDS Integers, Sequences, FiniteSets, TLC

VARIABLES
  expression,  \* the argument of parse_infix
  pc,          \* the statement reached
  tokens,      \* the token sequence
  argpos,      \* the pos argument of the parser call
  expr,        \* the Expr the parser returned
  pos,         \* the position the parser returned
  simplified,  \* the Expr simplify returned
  ret,         \* the value to_py returned
  panic        \* the message of the panic that ended the call

vars == <<expression, pc, tokens, argpos, expr, pos, simplified, ret, panic>>

(***************************************************************************)
(* Characters                                                              *)
(***************************************************************************)
Digits == {"0", "1", "2", "3", "4", "5", "6", "7", "8", "9"}

DigitVal(c) ==
  CASE c = "0" -> 0 [] c = "1" -> 1 [] c = "2" -> 2 [] c = "3" -> 3
    [] c = "4" -> 4 [] c = "5" -> 5 [] c = "6" -> 6 [] c = "7" -> 7
    [] c = "8" -> 8 [] c = "9" -> 9

\* a test for the space character only
IsSpace(c) == c = " "

\* char::is_whitespace, on the whitespace characters the inputs use
IsWhitespace(c) == c \in {" ", "\t", "\n"}

\* c.is_ascii_digit() || c == '.'
IsNumeralChar(c) == c \in Digits \/ c = "."

(***************************************************************************)
(* f64                                                                     *)
(***************************************************************************)
RECURSIVE Gcd(_, _)
Gcd(a, b) == IF b = 0 THEN a ELSE Gcd(b, a % b)

Abs(i) == IF i < 0 THEN -i ELSE i

RECURSIVE IsPow2(_)
IsPow2(d) == IF d = 1 THEN TRUE ELSE IF d % 2 # 0 THEN FALSE ELSE IsPow2(d \div 2)

RECURSIVE Pow10(_)
Pow10(k) == IF k = 0 THEN 1 ELSE 10 * Pow10(k - 1)

\* the rational n/d (d > 0) in lowest terms
Ratio(n, d) == LET g == Gcd(Abs(n), d) IN [n |-> n \div g, d |-> d \div g]

IsExact(v) == DOMAIN v = {"n", "d"}

F64(i) == [n |-> i, d |-> 1]

\* a + b on f64
FAdd(a, b) ==
  IF IsExact(a) /\ IsExact(b)
    THEN Ratio(a.n * b.d + b.n * a.d, a.d * b.d)
    ELSE [fop |-> "+", x |-> a, y |-> b]

\* a - b on f64
FSub(a, b) ==
  IF IsExact(a) /\ IsExact(b)
    THEN Ratio(a.n * b.d - b.n * a.d, a.d * b.d)
    ELSE [fop |-> "-", x |-> a, y |-> b]

\* a * b on f64; a zero product of operands of opposite sign is -0.0
FMul(a, b) ==
  IF IsExact(a) /\ IsExact(b) /\ ~(a.n * b.n = 0 /\ (a.n < 0 \/ b.n < 0))
    THEN Ratio(a.n * b.n, a.d * b.d)
    ELSE [fop |-> "*", x |-> a, y |-> b]

\* a / b on f64; x/0 is an infinity, 0/0 is NaN, 0/negative is -0.0, and a
\* quotient that is not dyadic is rounded
FDiv(a, b) ==
  IF IsExact(a) /\ IsExact(b)
    THEN IF b.n = 0
           THEN [special |-> IF a.n > 0 THEN "+inf" ELSE IF a.n < 0 THEN "-inf" ELSE "NaN"]
           ELSE LET sgn == IF b.n < 0 THEN -1 ELSE 1
                    q == Ratio(sgn * a.n * b.d, Abs(b.n) * a.d)
                IN IF IsPow2(q.d) /\ ~(a.n = 0 /\ b.n < 0)
                     THEN q
                     ELSE [fop |-> "/", x |-> a, y |-> b]
    ELSE [fop |-> "/", x |-> a, y |-> b]

\* -n on f64, a flip of the sign bit: -(0.0) is -0.0, and -(-x) is x
FNeg(a) ==
  IF IsExact(a) /\ a.n # 0 THEN [n |-> -a.n, d |-> a.d]
  ELSE IF DOMAIN a = {"fneg", "of"} THEN a.of
  ELSE [fneg |-> TRUE, of |-> a]

(***************************************************************************)
(* Expr                                                                    *)
(***************************************************************************)
Number(v) == [num |-> v]
Unary(op, e) == [uop |-> op, expr |-> e]
Binary(op, l, r) == [bop |-> op, left |-> l, right |-> r]

IsNumber(e) == DOMAIN e = {"num"}
IsUnary(e) == DOMAIN e = {"uop", "expr"}
IsBinary(e) == DOMAIN e = {"bop", "left", "right"}

(***************************************************************************)
(* tokenize                                                                *)
(***************************************************************************)
\* the flush of the pending numeral: if !current.is_empty() { tokens.push(current) }
Flush(toks, current) == IF current # <<>> THEN Append(toks, current) ELSE toks

\* one iteration of the loop over expr.chars(), on the state [tokens, current]
TokenizeChar(st, c) ==
  IF IsWhitespace(c)
    THEN st
    ELSE IF IsNumeralChar(c)
      THEN [tokens |-> st.tokens, current |-> Append(st.current, c)]
      ELSE [tokens |-> Append(Flush(st.tokens, st.current), <<c>>), current |-> <<>>]

RECURSIVE TokenizeLoop(_, _)
TokenizeLoop(st, rest) ==
  IF rest = <<>> THEN st ELSE TokenizeLoop(TokenizeChar(st, Head(rest)), Tail(rest))

Tokenize(s) ==
  LET st == TokenizeLoop([tokens |-> <<>>, current |-> <<>>], s)
  IN Flush(st.tokens, st.current)

(***************************************************************************)
(* str::parse::<f64> on a token                                            *)
(***************************************************************************)
CountOf(s, c) == Cardinality({i \in 1..Len(s) : s[i] = c})

RECURSIVE DigitsValue(_)
DigitsValue(s) ==
  IF s = <<>> THEN 0
  ELSE IF s[Len(s)] = "." THEN DigitsValue(SubSeq(s, 1, Len(s) - 1))
  ELSE 10 * DigitsValue(SubSeq(s, 1, Len(s) - 1)) + DigitVal(s[Len(s)])

FracDigits(s) ==
  IF CountOf(s, ".") = 0 THEN 0
  ELSE Len(s) - (CHOOSE i \in 1..Len(s) : s[i] = ".")

\* Ok(value) for digits with at most one '.', and at least one digit
ParseFloat(token) ==
  IF /\ \A i \in 1..Len(token) : IsNumeralChar(token[i])
     /\ CountOf(token, ".") <= 1
     /\ \E i \in 1..Len(token) : token[i] \in Digits
    THEN LET q == Ratio(DigitsValue(token), Pow10(FracDigits(token)))
         IN [ok |-> TRUE, value |-> IF IsPow2(q.d) THEN q ELSE [lit |-> token]]
    ELSE [ok |-> FALSE]

(***************************************************************************)
(* The parser                                                              *)
(***************************************************************************)
Ok(node, p) == [ok |-> TRUE, node |-> node, pos |-> p]
Panic(msg) == [ok |-> FALSE, panic |-> msg]

IndexOutOfBounds == "index out of bounds"
ExpectedParen == "expected )"
UnwrapErr == "called Result::unwrap() on an Err value: ParseFloatError"
UnexpectedTokens == "unexpected tokens at end"

\* tokens[pos].chars().next().unwrap()
FirstChar(toks, p) == Head(toks[p + 1])

\* a re-basing that leaves out the start of the slice
RebaseNoStart(p, at) == p + 1

\* p += pos + 1
Rebase(p, at) == p + at + 1

RECURSIVE ParseAddSub(_, _), ParseAddSubLoop(_, _, _), ParseMulDiv(_, _),
          ParseMulDivLoop(_, _, _), ParseUnary(_, _), ParsePrimary(_, _)

ParseExpression(toks) == ParseAddSub(toks, 0)

\* an additive loop whose right operand is a parse_unary, not a parse_mul_div
ParseAddSubLoopUnaryRhs(toks, node, p) ==
  IF p < Len(toks) /\ FirstChar(toks, p) \in {"+", "-"}
    THEN LET rhs == ParseUnary(toks, p + 1)
         IN IF rhs.ok
              THEN ParseAddSubLoop(toks, Binary(FirstChar(toks, p), node, rhs.node), rhs.pos)
              ELSE rhs
    ELSE Ok(node, p)

\* an additive level that recurses on its right operand instead of looping
ParseAddSubLoopRight(toks, node, p) ==
  IF p < Len(toks) /\ FirstChar(toks, p) \in {"+", "-"}
    THEN LET rhs == ParseAddSub(toks, p + 1)
         IN IF rhs.ok
              THEN Ok(Binary(FirstChar(toks, p), node, rhs.node), rhs.pos)
              ELSE rhs
    ELSE Ok(node, p)

\* the while loop of parse_add_sub
ParseAddSubLoop(toks, node, p) ==
  IF p < Len(toks) /\ FirstChar(toks, p) \in {"+", "-"}
    THEN LET rhs == ParseMulDiv(toks, p + 1)
         IN IF rhs.ok
              THEN ParseAddSubLoop(toks, Binary(FirstChar(toks, p), node, rhs.node), rhs.pos)
              ELSE rhs
    ELSE Ok(node, p)

ParseAddSub(toks, at) ==
  LET first == ParseMulDiv(toks, at)
  IN IF first.ok THEN ParseAddSubLoop(toks, first.node, first.pos) ELSE first

\* the while loop of parse_mul_div
ParseMulDivLoop(toks, node, p) ==
  IF p < Len(toks) /\ FirstChar(toks, p) \in {"*", "/"}
    THEN LET rhs == ParseUnary(toks, p + 1)
         IN IF rhs.ok
              THEN ParseMulDivLoop(toks, Binary(FirstChar(toks, p), node, rhs.node), rhs.pos)
              ELSE rhs
    ELSE Ok(node, p)

ParseMulDiv(toks, at) ==
  LET first == ParseUnary(toks, at)
  IN IF first.ok THEN ParseMulDivLoop(toks, first.node, first.pos) ELSE first

\* a parse_unary that takes one sign and goes to parse_primary
ParseUnaryNoChain(toks, at) ==
  IF at < Len(toks) /\ FirstChar(toks, at) \in {"+", "-"}
    THEN LET inner == ParsePrimary(toks, at + 1)
         IN IF inner.ok
              THEN Ok(Unary(FirstChar(toks, at), inner.node), inner.pos)
              ELSE inner
    ELSE ParsePrimary(toks, at)

ParseUnary(toks, at) ==
  IF at < Len(toks) /\ FirstChar(toks, at) \in {"+", "-"}
    THEN LET inner == ParseUnary(toks, at + 1)
         IN IF inner.ok
              THEN Ok(Unary(FirstChar(toks, at), inner.node), inner.pos)
              ELSE inner
    ELSE ParsePrimary(toks, at)

ParsePrimary(toks, at) ==
  IF at >= Len(toks) THEN Panic(IndexOutOfBounds)
  ELSE IF toks[at + 1] = <<"(">>
    THEN LET inner == ParseExpression(SubSeq(toks, at + 2, Len(toks)))
         IN IF ~inner.ok THEN inner
            ELSE LET p == Rebase(inner.pos, at)
                 IN IF p >= Len(toks) THEN Panic(IndexOutOfBounds)
                    ELSE IF toks[p + 1] # <<")">> THEN Panic(ExpectedParen)
                    ELSE Ok(inner.node, p + 1)
    ELSE LET value == ParseFloat(toks[at + 1])
         IN IF value.ok THEN Ok(Number(value.value), at + 1) ELSE Panic(UnwrapErr)

(***************************************************************************)
(* simplify                                                                *)
(***************************************************************************)
Unreachable == [special |-> "unreachable!()"]

FoldBinary(op, a, b) ==
  CASE op = "+" -> FAdd(a, b)
    [] op = "-" -> FSub(a, b)
    [] op = "*" -> FMul(a, b)
    [] op = "/" -> FDiv(a, b)
    [] OTHER -> Unreachable

FoldUnary(op, n) ==
  CASE op = "+" -> n
    [] op = "-" -> FNeg(n)
    [] OTHER -> Unreachable

RECURSIVE Simplify(_)

\* a simplify that folds on the children as given, before they are simplified
SimplifyShallow(e) ==
  IF IsBinary(e)
    THEN IF IsNumber(e.left) /\ IsNumber(e.right)
           THEN Number(FoldBinary(e.bop, e.left.num, e.right.num))
           ELSE Binary(e.bop, Simplify(e.left), Simplify(e.right))
  ELSE IF IsUnary(e)
    THEN IF IsNumber(e.expr)
           THEN Number(FoldUnary(e.uop, e.expr.num))
           ELSE Unary(e.uop, Simplify(e.expr))
  ELSE e

Simplify(e) ==
  IF IsBinary(e)
    THEN LET left == Simplify(e.left)
             right == Simplify(e.right)
         IN IF IsNumber(left) /\ IsNumber(right)
              THEN Number(FoldBinary(e.bop, left.num, right.num))
              ELSE Binary(e.bop, left, right)
  ELSE IF IsUnary(e)
    THEN LET inner == Simplify(e.expr)
         IN IF IsNumber(inner)
              THEN Number(FoldUnary(e.uop, inner.num))
              ELSE Unary(e.uop, inner)
  ELSE e

(***************************************************************************)
(* to_py                                                                   *)
(***************************************************************************)
RECURSIVE ToPy(_)
ToPy(e) ==
  IF IsNumber(e) THEN [type |-> "Number", value |-> e.num]
  ELSE IF IsUnary(e) THEN [type |-> "Unary", op |-> e.uop, expr |-> ToPy(e.expr)]
  ELSE [type |-> "Binary", op |-> e.bop, left |-> ToPy(e.left), right |-> ToPy(e.right)]

(***************************************************************************)
(* parse_infix, one action per statement                                   *)
(***************************************************************************)
None == [none |-> TRUE]

\* let tokens = tokenize(expression);
TokenizeStep ==
  /\ pc = "start"
  /\ tokens' = Tokenize(expression)
  /\ pc' = "tokenized"
  /\ UNCHANGED <<expression, argpos, expr, pos, simplified, ret, panic>>

\* let (expr, pos) = parse_expression(&tokens);
ParseStep ==
  /\ pc = "tokenized"
  /\ LET r == ParseExpression(tokens)
     IN IF r.ok
          THEN /\ expr' = r.node
               /\ pos' = r.pos
               /\ pc' = "parsed"
               /\ UNCHANGED panic
          ELSE /\ pc' = "panicked"
               /\ panic' = r.panic
               /\ UNCHANGED <<expr, pos>>
  /\ UNCHANGED <<expression, tokens, argpos, simplified, ret>>

\* a comparison that lets leftover tokens through
TokensLeftOnlyPast(p, toks) == p > Len(toks)

\* pos != tokens.len()
TokensLeft(p, toks) == p # Len(toks)

\* if pos != tokens.len() { panic!("unexpected tokens at end"); }
CheckEndStep ==
  /\ pc = "parsed"
  /\ IF TokensLeft(pos, tokens)
       THEN pc' = "panicked" /\ panic' = UnexpectedTokens
       ELSE pc' = "checked" /\ UNCHANGED panic
  /\ UNCHANGED <<expression, tokens, argpos, expr, pos, simplified, ret>>

\* let simplified = simplify(expr);
SimplifyStep ==
  /\ pc = "checked"
  /\ simplified' = Simplify(expr)
  /\ pc' = "simplified"
  /\ UNCHANGED <<expression, tokens, argpos, expr, pos, ret, panic>>

\* Python::with_gil(|py| to_py(py, simplified))
ReturnStep ==
  /\ pc = "simplified"
  /\ ret' = ToPy(simplified)
  /\ pc' = "returned"
  /\ UNCHANGED <<expression, tokens, argpos, expr, pos, simplified, panic>>

Next == TokenizeStep \/ ParseStep \/ CheckEndStep \/ SimplifyStep \/ ReturnStep

\* the state parse_infix is entered in, on the argument s
Entry(s) ==
  /\ expression = s
  /\ pc = "start"
  /\ tokens = <<>>
  /\ argpos = 0
  /\ expr = None
  /\ pos = 0
  /\ simplified = None
  /\ ret = None
  /\ panic = "none"

(***************************************************************************)
(* Inputs: every string of at most MaxLen characters of Alphabet           *)
(***************************************************************************)
MaxLen == 4

Alphabet == {"1", "2", ".", " ", "+", "-", "*", "(", ")", "x"}

Strings(chars, n) == UNION {[1..k -> chars] : k \in 0..n}

Init == \E s \in Strings(Alphabet, MaxLen) : Entry(s)

Spec == Init /\ [][Next]_vars

(***************************************************************************)
(* What the caller of parse_infix gets.  The function returns PyObject,    *)
(* not a Result: a call ends in the value of to_py or in a panic, and      *)
(* there is no error value it could return.                                *)
(***************************************************************************)
Outcome ==
  IF pc = "returned" THEN [kind |-> "Value", value |-> ret]
  ELSE IF pc = "panicked" THEN [kind |-> "Panic", message |-> panic]
  ELSE [kind |-> "Running"]

Finished == pc \in {"returned", "panicked"}

(***************************************************************************)
(* Claims on parse_infix over every short input (Spec)                     *)
(***************************************************************************)

\* C1: every input on which parse_infix returns no tree ends in a typed
\* ParseError result handed to the caller, never in a panic; in particular a
\* token index at or past the end of the tokens is turned into that error.
C1_FailureIsParseError ==
  (Finished /\ Outcome.kind # "Value") => Outcome.kind = "ParseError"

AllIn(s, set) == \A i \in 1..Len(s) : s[i] \in set

\* s is two digit runs separated by whitespace only
TwoNumerals(s) ==
  \E i, j \in 1..Len(s) :
    /\ i < j /\ j < Len(s)
    /\ AllIn(SubSeq(s, 1, i), Digits)
    /\ AllIn(SubSeq(s, i + 1, j), {" ", "\t", "\n"})
    /\ AllIn(SubSeq(s, j + 1, Len(s)), Digits)

\* C2: an input of two numerals separated only by whitespace is two tokens and
\* is rejected for its leftover token ("unexpected tokens at end"); no Number
\* is returned for it.
C2_TwoNumeralsRejected ==
  TwoNumerals(expression) =>
    /\ pc # "start" => Len(tokens) = 2
    /\ Finished => (pc = "panicked" /\ panic = UnexpectedTokens)

\* C3: parse_infix returns a tree only if the outermost parse_expression
\* consumed every token: when it returns a position short of the number of
\* tokens, the call ends in a panic and neither simplify nor to_py has run.
C3_TreeOnlyIfAllConsumed ==
  /\ pc \in {"checked", "simplified", "returned"} => pos = Len(tokens)
  /\ (pc \in {"parsed", "panicked"} /\ expr # None /\ pos < Len(tokens)) =>
       /\ simplified = None
       /\ ret = None
       /\ Finished => panic = UnexpectedTokens

\* C3 witness: "1)" has ended in the panic for leftover tokens
C3_Witness ==
  /\ expression = <<"1", ")">>
  /\ pc = "panicked"
  /\ panic = UnexpectedTokens
  /\ pos = 1
  /\ Len(tokens) = 2

\* C7: whenever the parser needs a token and the tokens are exhausted (in the
\* source, an index past the end), parse_infix fails with the typed error
\* UnexpectedEndOfInput (or UnmatchedParenthesis for a missing ')').
C7_ExhaustedIsTypedError ==
  (pc = "panicked" /\ panic = IndexOutOfBounds) =>
    /\ Outcome.kind = "ParseError"
    /\ Outcome.error \in {"UnexpectedEndOfInput", "UnmatchedParenthesis"}

(***************************************************************************)
(* parse_infix as a function of its argument: the value returned, or the   *)
(* panic                                                                   *)
(***************************************************************************)
ParseInfix(s) ==
  LET toks == Tokenize(s)
      r == ParseExpression(toks)
  IN IF ~r.ok THEN [kind |-> "Panic", message |-> r.panic]
     ELSE IF TokensLeft(r.pos, toks) THEN [kind |-> "Panic", message |-> UnexpectedTokens]
     ELSE [kind |-> "Value", value |-> ToPy(Simplify(r.node))]

(***************************************************************************)
(* Whitespace (SpecWs): "1+2" with up to MaxPad whitespace characters      *)
(* before, between and after its characters                                *)
(***************************************************************************)
MaxPad == 2

WsChars == {" ", "\t"}

Base == <<"1", "+", "2">>

Pads == Strings(WsChars, MaxPad)

Padded ==
  {p[1] \o <<Base[1]>> \o p[2] \o <<Base[2]>> \o p[3] \o <<Base[3]>> \o p[4] :
     p \in [1..4 -> Pads]}

InitWs == \E s \in Padded : Entry(s)

SpecWs == InitWs /\ [][Next]_vars

\* C8: "1+2" with whitespace added before, after or between its tokens gives
\* the token sequence of "1+2" and the result of parse_infix("1+2").
C8_WhitespaceInvariance ==
  /\ pc # "start" => tokens = Tokenize(Base)
  /\ Finished => Outcome = ParseInfix(Base)
  /\ pc = "returned" => ret = [type |-> "Number", value |-> F64(3)]

\* C8 witness: " 1 + 2 " has returned
C8_Witness ==
  /\ expression = <<" ", "1", " ", "+", " ", "2", " ">>
  /\ pc = "returned"

(***************************************************************************)
(* Precedence, associativity and signs (SpecGrammar): parse_infix on       *)
(* a op b op c, (a op b) op c, chains of one precedence level, and signed  *)
(* operands                                                                *)
(***************************************************************************)
MaxNum == 5
MaxChain == 3
MaxSigns == 3

Additive == {"+", "-"}
Multiplicative == {"*", "/"}
Operators == Additive \cup Multiplicative

DigitChar(d) == CHOOSE c \in Digits : DigitVal(c) = d

\* the decimal text of a natural number
RECURSIVE Decimal(_)
Decimal(n) ==
  IF n < 10 THEN <<DigitChar(n)>> ELSE Append(Decimal(n \div 10), DigitChar(n % 10))

Nums == 0..MaxNum
ChainNums == {2, 3, 10}

PrecInputs ==
  UNION {{Decimal(a) \o <<o1>> \o Decimal(b) \o <<o2>> \o Decimal(c),
          <<"(">> \o Decimal(a) \o <<o1>> \o Decimal(b) \o <<")">> \o <<o2>> \o Decimal(c)} :
           <<a, b, c, o1, o2>> \in Nums \X Nums \X Nums \X Operators \X Operators}

\* the chains of k operators drawn from ops
RECURSIVE Chains(_, _)
Chains(k, ops) ==
  IF k = 0 THEN {Decimal(x) : x \in ChainNums}
  ELSE {c \o <<o>> \o Decimal(x) : c \in Chains(k - 1, ops), o \in ops, x \in ChainNums}

ChainInputs ==
  UNION {Chains(k, Additive) \cup Chains(k, Multiplicative) : k \in 1..MaxChain}

SignRuns == UNION {[1..k -> Additive] : k \in 1..MaxSigns}

UnaryInputs ==
  {sg \o Decimal(n) : sg \in SignRuns, n \in Nums}
    \cup {Decimal(a) \o <<o>> \o sg \o Decimal(n) :
            a \in {1, 2}, o \in Operators, sg \in SignRuns, n \in Nums}

InitGrammar == \E s \in PrecInputs \cup ChainInputs \cup UnaryInputs : Entry(s)

SpecGrammar == InitGrammar /\ [][Next]_vars

\* parse_expression has returned
Parsed == pc \in {"parsed", "checked", "simplified", "returned"}
Simplified == pc \in {"simplified", "returned"}

IsNumeral(tok) == ParseFloat(tok).ok
Lit(tok) == Number(ParseFloat(tok).value)
IsOp(tok, ops) == Len(tok) = 1 /\ tok[1] \in ops

\* C4: multiplicative operators bind tighter than additive ones and
\* parentheses override it: a+b*c parses to Binary(additive, a,
\* Binary(multiplicative, b, c)), (a+b)*c to Binary(multiplicative,
\* Binary(additive, a, b), c); "2+3*4" simplifies to 14, "(2+3)*4" to 20.
C4_Precedence ==
  /\ ( /\ pc \notin {"start", "tokenized"}
       /\ Len(tokens) = 5
       /\ IsNumeral(tokens[1]) /\ IsNumeral(tokens[3]) /\ IsNumeral(tokens[5])
       /\ IsOp(tokens[2], Additive) /\ IsOp(tokens[4], Multiplicative) ) =>
       /\ Parsed
       /\ pos = 5
       /\ expr = Binary(tokens[2][1], Lit(tokens[1]),
                        Binary(tokens[4][1], Lit(tokens[3]), Lit(tokens[5])))
  /\ ( /\ pc \notin {"start", "tokenized"}
       /\ Len(tokens) = 7
       /\ tokens[1] = <<"(">> /\ tokens[5] = <<")">>
       /\ IsNumeral(tokens[2]) /\ IsNumeral(tokens[4]) /\ IsNumeral(tokens[7])
       /\ IsOp(tokens[3], Additive) /\ IsOp(tokens[6], Multiplicative) ) =>
       /\ Parsed
       /\ pos = 7
       /\ expr = Binary(tokens[6][1],
                        Binary(tokens[3][1], Lit(tokens[2]), Lit(tokens[4])),
                        Lit(tokens[7]))
  /\ (Finished /\ expression = <<"2", "+", "3", "*", "4">>) =>
       (pc = "returned" /\ simplified = Number(F64(14)))
  /\ (Finished /\ expression = <<"(", "2", "+", "3", ")", "*", "4">>) =>
       (pc = "returned" /\ simplified = Number(F64(20)))

\* C4 witness: "2+3*4" has returned Number(14)
C4_Witness ==
  /\ expression = <<"2", "+", "3", "*", "4">>
  /\ pc = "returned"
  /\ ret = [type |-> "Number", value |-> F64(14)]

\* the tokens are x1 op x2 op ... xn, n >= 2, with every op in ops
IsChain(toks, ops) ==
  /\ Len(toks) >= 3 /\ Len(toks) % 2 = 1
  /\ \A i \in 1..Len(toks) :
       IF i % 2 = 1 THEN IsNumeral(toks[i]) ELSE IsOp(toks[i], ops)

\* (((x1 op x2) op x3) ... xn)
RECURSIVE LeftTree(_)
LeftTree(toks) ==
  IF Len(toks) = 1 THEN Lit(toks[1])
  ELSE Binary(toks[Len(toks) - 1][1],
              LeftTree(SubSeq(toks, 1, Len(toks) - 2)),
              Lit(toks[Len(toks)]))

\* C5: a chain of operators of one precedence level parses left-associatively,
\* to (((x1 op x2) op x3) ... xn), the right child at every level a single
\* operand; "10-3-2" simplifies to 5.
C5_LeftAssociative ==
  /\ ( /\ pc \notin {"start", "tokenized"}
       /\ (IsChain(tokens, Additive) \/ IsChain(tokens, Multiplicative)) ) =>
       /\ Parsed
       /\ pos = Len(tokens)
       /\ expr = LeftTree(tokens)
       /\ IsNumber(expr.right)
  /\ (Finished /\ expression = <<"1", "0", "-", "3", "-", "2">>) =>
       (pc = "returned" /\ simplified = Number(F64(5)))

\* C5 witness: "10-3-2" has returned Number(5)
C5_Witness ==
  /\ expression = <<"1", "0", "-", "3", "-", "2">>
  /\ pc = "returned"
  /\ ret = [type |-> "Number", value |-> F64(5)]

\* the tokens are k >= 1 signs and a numeral
IsSigned(toks) ==
  /\ Len(toks) >= 2
  /\ \A i \in 1..(Len(toks) - 1) : IsOp(toks[i], Additive)
  /\ IsNumeral(toks[Len(toks)])

\* Unary(s1, Unary(s2, ... Number(n)))
RECURSIVE SignTree(_)
SignTree(toks) ==
  IF Len(toks) = 1 THEN Lit(toks[1]) ELSE Unary(toks[1][1], SignTree(Tail(toks)))

Minuses(toks) == Cardinality({i \in 1..Len(toks) : toks[i] = <<"-">>})

\* the f64 -v of an exactly held v
Negated(v) == IF v.n = 0 THEN [fneg |-> TRUE, of |-> v] ELSE [n |-> 0 - v.n, d |-> v.d]

\* C6: k >= 1 signs before a numeral parse to k nested Unary nodes, outermost
\* sign first, and simplify to Number(n) for an even number of '-' and to
\* Number(-n) for an odd one; "--5" and "-+-5" simplify to 5.  A sign right
\* after a binary operator is a unary sign on the right operand.
C6_UnaryChain ==
  /\ (pc \notin {"start", "tokenized"} /\ IsSigned(tokens)) =>
       /\ Parsed
       /\ pos = Len(tokens)
       /\ expr = SignTree(tokens)
       /\ Finished => pc = "returned"
       /\ Simplified =>
            simplified = Number(IF Minuses(tokens) % 2 = 0
                                  THEN Lit(tokens[Len(tokens)]).num
                                  ELSE Negated(Lit(tokens[Len(tokens)]).num))
  /\ ( /\ pc \notin {"start", "tokenized"}
       /\ Len(tokens) >= 4
       /\ IsNumeral(tokens[1]) /\ IsOp(tokens[2], Operators)
       /\ IsSigned(SubSeq(tokens, 3, Len(tokens))) ) =>
       /\ Parsed
       /\ pos = Len(tokens)
       /\ expr = Binary(tokens[2][1], Lit(tokens[1]),
                        SignTree(SubSeq(tokens, 3, Len(tokens))))
  /\ (Finished /\ expression \in {<<"-", "-", "5">>, <<"-", "+", "-", "5">>}) =>
       (pc = "returned" /\ simplified = Number(F64(5)))

\* C6 witness: "-+-5" has returned Number(5)
C6_Witness ==
  /\ expression = <<"-", "+", "-", "5">>
  /\ pc = "returned"
  /\ expr = Unary("-", Unary("+", Unary("-", Number(F64(5)))))
  /\ ret = [type |-> "Number", value |-> F64(5)]

(***************************************************************************)
(* parse_primary as a function (SpecPrimary): called at every position of  *)
(* every token sequence of at most MaxParenLen characters of ParenAlphabet *)
(***************************************************************************)
MaxParenLen == 6

ParenAlphabet == {"(", ")", "1", "+"}

InitPrimary ==
  \E s \in Strings(ParenAlphabet, MaxParenLen) :
    \E a \in 0..Len(Tokenize(s)) :
      /\ expression = s
      /\ tokens = Tokenize(s)
      /\ argpos = a
      /\ pc = "primary"
      /\ expr = None
      /\ pos = 0
      /\ simplified = None
      /\ ret = None
      /\ panic = "none"

\* let (expr, pos) = parse_primary(&tokens, argpos)
ParsePrimaryCall ==
  /\ pc = "primary"
  /\ LET r == ParsePrimary(tokens, argpos)
     IN IF r.ok
          THEN /\ expr' = r.node
               /\ pos' = r.pos
               /\ pc' = "primary_done"
               /\ UNCHANGED panic
          ELSE /\ pc' = "panicked"
               /\ panic' = r.panic
               /\ UNCHANGED <<expr, pos>>
  /\ UNCHANGED <<expression, tokens, argpos, simplified, ret>>

NextPrimary == ParsePrimaryCall

SpecPrimary == InitPrimary /\ [][NextPrimary]_vars

\* the index of the ')' that closes the group open at depth before index i, or
\* -1: the parentheses counted, without parsing
RECURSIVE MatchFrom(_, _, _)
MatchFrom(toks, i, depth) ==
  IF i >= Len(toks) THEN -1
  ELSE IF toks[i + 1] = <<")">>
    THEN IF depth = 1 THEN i ELSE MatchFrom(toks, i + 1, depth - 1)
  ELSE IF toks[i + 1] = <<"(">> THEN MatchFrom(toks, i + 1, depth + 1)
  ELSE MatchFrom(toks, i + 1, depth)

Match(toks, open) == MatchFrom(toks, open + 1, 1)

OnParen == argpos < Len(tokens) /\ tokens[argpos + 1] = <<"(">>

\* C10: parse_primary called at pos on a '(' returns q+1, q the index of the
\* matching ')' in the sequence it was called on, for every pos and nesting
\* depth: the inner parse runs on the slice from pos+1 and its position is
\* re-based by pos+1.  If the token at the re-based position is not ')', the
\* call fails and returns no tree.
C10_GroupPosition ==
  /\ (pc = "primary_done" /\ OnParen) =>
       /\ Match(tokens, argpos) # -1
       /\ pos = Match(tokens, argpos) + 1
  /\ (pc # "primary" /\ OnParen) =>
       LET inner == ParseExpression(SubSeq(tokens, argpos + 2, Len(tokens)))
           p == IF inner.ok THEN inner.pos + argpos + 1 ELSE -1
       IN IF inner.ok /\ p < Len(tokens) /\ tokens[p + 1] = <<")">>
            THEN pc = "primary_done" /\ pos = p + 1 /\ expr = inner.node
            ELSE pc = "panicked" /\ expr = None

\* C10 witness: in "+((1))" the call at index 1 has returned 6, through a
\* nested group at index 2
C10_Witness ==
  /\ expression = <<"+", "(", "(", "1", ")", ")">>
  /\ argpos = 1
  /\ pc = "primary_done"
  /\ pos = 6

(***************************************************************************)
(* simplify as a function (SpecSimplify): on every Expr of at most         *)
(* MaxNodes nodes over LeafValues, from the statement that calls it        *)
(***************************************************************************)
MaxNodes == 5

LeafValues == {F64(0), F64(1), F64(3)}

RECURSIVE ExprsOfSize(_)
ExprsOfSize(n) ==
  IF n = 1 THEN {Number(v) : v \in LeafValues}
  ELSE {Unary(op, e) : op \in Additive, e \in ExprsOfSize(n - 1)}
         \cup UNION {{Binary(op, l, r) :
                        op \in Operators, l \in ExprsOfSize(k), r \in ExprsOfSize(n - 1 - k)} :
                     k \in 1..(n - 2)}

InitSimplify ==
  \E n \in 1..MaxNodes :
    \E e \in ExprsOfSize(n) :
      /\ expression = <<>>
      /\ tokens = <<>>
      /\ argpos = 0
      /\ pc = "checked"
      /\ expr = e
      /\ pos = 0
      /\ simplified = None
      /\ ret = None
      /\ panic = "none"

NextSimplify == SimplifyStep \/ ReturnStep

SpecSimplify == InitSimplify /\ [][NextSimplify]_vars

\* C9: simplify is idempotent on every finite Expr with Unary operators in
\* {+,-} and Binary operators in {+,-,*,/}: simplify(simplify(e)) = simplify(e).
C9_SimplifyIdempotent ==
  Simplified => Simplify(simplified) = simplified

\* C9 witness: a tree with a nested Binary right child has been simplified
C9_Witness ==
  /\ pc = "simplified"
  /\ expr = Binary("+", Number(F64(1)), Binary("/", Number(F64(3)), Number(F64(0))))
  /\ IsNumber(simplified)

====
